---- MODULE Spec2Model ----
(* Model of src/app.py: page normalisation, contiguous chunking, lazy      *)
(* per-chunk rasterization (iter_pdf_images), the two OCR loops            *)
(* (ocr_pdf_pages, build_searchable_pdf) and the part of main() that       *)
(* drives them and reports their outcome.                                  *)
(*                                                                         *)
(* One behaviour is one invocation: either one script run of main() or one *)
(* direct call of ocr_pdf_pages / build_searchable_pdf with a page list.   *)
(* A raster image is identified by the number of the page it was           *)
(* rasterized from.  "Released" means image.close() has been called on it. *)
(* A behaviour starts in a fresh process: pytesseract holds its default     *)
(* command and st.session_state holds no pending download.                 *)
EXTENDS Integers, Sequences, FiniteSets, TLC

(***************************************************************************)
(* Program constant and model bounds                                       *)
(***************************************************************************)
MAX_PAGES_PER_CHUNK == 8

MaxPageCount  == 20   \* largest default selection 1..n
MaxDeselected == 2    \* pages removed from a default selection
MaxSeqLen     == 4    \* length of a free-form page list (any order, duplicates)
MaxSeqPage    == 3    \* largest page index in a free-form page list
MaxEditPages  == 10   \* largest page count whose default selection is edited

(***************************************************************************)
(* Helpers on sequences                                                    *)
(***************************************************************************)
Range(s) == {s[i] : i \in 1..Len(s)}

Last(s) == s[Len(s)]

RECURSIVE Concat(_)
Concat(ss) == IF ss = <<>> THEN <<>> ELSE Head(ss) \o Concat(Tail(ss))

StrictlyIncreasing(s) == \A i \in 1..(Len(s) - 1) : s[i] < s[i + 1]

IsPrefix(s, t) == Len(s) <= Len(t) /\ SubSeq(t, 1, Len(s)) = s

(***************************************************************************)
(* Python built-ins used by the code                                       *)
(***************************************************************************)
\* sorted(list)
sorted(s) == SortSeq(s, LAMBDA a, b : a < b)

\* iteration over set(list): some enumeration of the distinct values
RECURSIVE SetIter(_)
SetIter(S) ==
    IF S = {} THEN <<>>
    ELSE LET x == CHOOSE y \in S : TRUE IN <<x>> \o SetIter(S \ {x})

(***************************************************************************)
(* iter_pdf_images, lines 87-92: order-preserving dedupe                   *)
(***************************************************************************)
RECURSIVE DedupeLoop(_, _, _, _)
DedupeLoop(pgs, i, unique, seen) ==
    IF i > Len(pgs) THEN unique
    ELSE IF pgs[i] \notin seen
         THEN DedupeLoop(pgs, i + 1, Append(unique, pgs[i]), seen \cup {pgs[i]})
         ELSE DedupeLoop(pgs, i + 1, unique, seen)

\* variant: duplicates kept
unique_pages_mut(pgs) == pgs

unique_pages(pgs) == DedupeLoop(pgs, 1, <<>>, {})

\* line 107: ordered = sorted(unique_pages)
\* variant: first-seen order kept, no sort
ordered_mut(pgs) == unique_pages(pgs)

ordered_of(pgs) == sorted(unique_pages(pgs))

\* main, line 244: selected_pages_sorted = sorted(set(selected_pages))
selected_pages_sorted_of(selected) == sorted(SetIter(Range(selected)))

(***************************************************************************)
(* contiguous_chunks, lines 97-105, as a resumable generator               *)
(***************************************************************************)
\* line 100: the open chunk takes the scanned number
\* variants: no size cap; a gap does not close the chunk; cap one too low
CanExtend_nocap(chunk, number) == number = Last(chunk) + 1

CanExtend_gap(chunk, number) ==
    number >= Last(chunk) + 1 /\ Len(chunk) < MAX_PAGES_PER_CHUNK

CanExtend_early(chunk, number) ==
    number = Last(chunk) + 1 /\ Len(chunk) < MAX_PAGES_PER_CHUNK - 1

CanExtend(chunk, number) ==
    number = Last(chunk) + 1 /\ Len(chunk) < MAX_PAGES_PER_CHUNK

\* generator state: st = "init" (not started), "mid" (suspended at the
\* yield of line 103, chunk = [number] is what line 104 will assign),
\* "last" (suspended at the yield of line 105), "done"
CCInit == [st |-> "init", chunk |-> <<>>, pos |-> 1]

\* the for loop of lines 99-105, run until the next yield
RECURSIVE ScanLoop(_, _, _)
ScanLoop(numbers, chunk, pos) ==
    IF pos > Len(numbers)
    THEN [yielded |-> TRUE, value |-> chunk,
          cc |-> [st |-> "last", chunk |-> <<>>, pos |-> pos]]
    ELSE LET number == numbers[pos] IN
         IF CanExtend(chunk, number)
         THEN ScanLoop(numbers, Append(chunk, number), pos + 1)
         ELSE [yielded |-> TRUE, value |-> chunk,
               cc |-> [st |-> "mid", chunk |-> <<number>>, pos |-> pos + 1]]

\* next(contiguous_chunks(numbers))
ResumeCC(numbers, cc) ==
    CASE cc.st = "init" -> ScanLoop(numbers, <<numbers[1]>>, 2)
      [] cc.st = "mid"  -> ScanLoop(numbers, cc.chunk, cc.pos)
      [] OTHER          -> [yielded |-> FALSE, value |-> <<>>,
                            cc |-> [st |-> "done", chunk |-> <<>>, pos |-> cc.pos]]

(***************************************************************************)
(* convert_from_bytes(first_page=first, last_page=last), lines 110-120:    *)
(* one image per page of the range first..last, in page order              *)
(***************************************************************************)
ConvertRange(chunk) == [i \in 1..(Last(chunk) - chunk[1] + 1) |-> chunk[1] + i - 1]


(***************************************************************************)
(* Inputs of one invocation                                                *)
(***************************************************************************)
\* ascending enumeration of a set of pages (the order of the PDF)
RECURSIVE Ascending(_)
Ascending(S) ==
    IF S = {} THEN <<>>
    ELSE LET m == CHOOSE x \in S : \A y \in S : x <= y
         IN <<m>> \o Ascending(S \ {m})

NoDuplicates(s) == \A i, j \in 1..Len(s) : s[i] = s[j] => i = j

\* build_page_selection, line 77: the default selects every page 1..n
DefaultSelections == {[i \in 1..n |-> i] : n \in 0..MaxPageCount}

\* the default with up to MaxDeselected pages removed (0 stands for "none")
EditedSelections ==
    {Ascending((1..n) \ {d[i] : i \in 1..MaxDeselected}) :
        n \in 1..MaxEditPages, d \in [1..MaxDeselected -> 0..MaxEditPages]}

\* page lists in any order, duplicates allowed
FreeSelections == UNION {[1..n -> 1..MaxSeqPage] : n \in 0..MaxSeqLen}

\* what st.multiselect can return: distinct options, in the order picked
MultiselectValues ==
    DefaultSelections \cup EditedSelections
        \cup {s \in FreeSelections : NoDuplicates(s)}

\* a `pages` argument of a direct call of one of the two OCR functions
PageLists == FreeSelections

(***************************************************************************)
(* State                                                                   *)
(***************************************************************************)
VARIABLES
    pc,                    \* position in the invocation
    entry,                 \* "main", "ocr_pdf_pages" or "build_searchable_pdf"
    button,                \* the st.button that returned True in this run
    pages,                 \* selected_pages (main) / the pages argument
    cmd_path,              \* sidebar text input: "", "exists" or "missing"
    on_path,               \* the command pytesseract holds by default resolves
    tesseract_cmd,         \* pytesseract.pytesseract.tesseract_cmd
    ui,                    \* st.info / st.warning / st.error / st.success shown
    selected_pages_sorted, \* main, line 244
    mode,                  \* "none", "text" (ocr_pdf_pages), "pdf" (build_searchable_pdf)
    arg_pages,             \* the pages parameter of the running OCR function
    gen,                   \* the iter_pdf_images generator
    page_number,           \* loop variable of the OCR loop
    image,                 \* loop variable of the OCR loop
    ocr_outcome,           \* how the OCR call of the current page ended
    exc,                   \* exception propagating out of the OCR function
    results,               \* ocr_pdf_pages: list of (page_number, text of image)
    fragments,             \* build_searchable_pdf: pages added to the writer
    returned,              \* <<value>> once the OCR function has returned
    displayed,             \* what display_ocr_output was given
    pending_download,      \* st.session_state["pending_download"]: <<>> or <<data>>
    download_offered,      \* data of the st.download_button: <<>> or <<data>>
    created,               \* images convert_from_bytes has returned
    released,              \* images image.close() has been called on
    close_failed,          \* some image.close() raised
    failed,                \* a rasterization or an OCR call has failed
    ocr_started,           \* images handed to the OCR engine, in call order
    convert_calls,         \* <<first, last>> of each convert_from_bytes call
    emitted                \* chunks yielded by contiguous_chunks

inputs == <<entry, button, pages, cmd_path, on_path>>

mainv  == <<tesseract_cmd, ui, selected_pages_sorted, mode, arg_pages,
            displayed, pending_download, download_offered>>

loopv  == <<page_number, image, ocr_outcome, exc, results, fragments, returned>>

histv  == <<created, released, close_failed, failed, ocr_started,
            convert_calls, emitted>>

vars   == <<pc, inputs, mainv, gen, loopv, histv>>

GenInit ==
    [st |-> "unstarted", ordered |-> <<>>, cc |-> CCInit,
     chunk |-> <<>>, offset |-> 0, chunk_images |-> <<>>]

Init ==
    /\ pc = "start"
    /\ \/ /\ entry = "main"
          /\ button \in {"none", "run_ocr", "download_ocr_pdf"}
          /\ pages \in MultiselectValues
          /\ cmd_path \in {"", "exists", "missing"}
          \* with an existing path configured the default command is not used
          /\ on_path \in (IF cmd_path = "exists" THEN {FALSE} ELSE BOOLEAN)
       \/ /\ entry \in {"ocr_pdf_pages", "build_searchable_pdf"}
          /\ button = "none"
          /\ pages \in PageLists
          /\ cmd_path = ""
          /\ on_path \in BOOLEAN
    /\ tesseract_cmd = "tesseract"
    /\ ui = {}
    /\ selected_pages_sorted = <<>>
    /\ mode = "none"
    /\ arg_pages = <<>>
    /\ gen = GenInit
    /\ page_number = 0
    /\ image = 0
    /\ ocr_outcome = "none"
    /\ exc = "none"
    /\ results = <<>>
    /\ fragments = <<>>
    /\ returned = <<>>
    /\ displayed = <<>>
    /\ pending_download = <<>>
    /\ download_offered = <<>>
    /\ created = {}
    /\ released = {}
    /\ close_failed = FALSE
    /\ failed = FALSE
    /\ ocr_started = <<>>
    /\ convert_calls = <<>>
    /\ emitted = <<>>

(***************************************************************************)
(* main(): configuration, selection, dispatch (lines 200, 239-300)         *)
(***************************************************************************)
\* configure_tesseract, lines 47-54: the command after the call
ConfiguredCmd(cmd, path) == IF path = "exists" THEN "configured" ELSE cmd

\* configure_tesseract, line 54: the warning for a path that does not exist
ConfigureWarning(path) == IF path = "missing" THEN {"warn_executable_missing"} ELSE {}

\* whether pytesseract can run the engine with the command it holds
EngineResolvable == tesseract_cmd = "configured" \/ on_path

\* line 240: if not selected_pages
\* variant: the empty selection is not stopped
SelectionEmpty_mut(selected) == FALSE

SelectionEmpty(selected) == selected = <<>>

\* lines 245-246
ReorderInfo(selected, srt) == IF srt # selected THEN {"info_reordered"} ELSE {}

\* lines 268-276 and 292-300: the except clause that catches e, per mode
\* variant: every exception reported by the generic clause
ErrorMessage_mut(m, e) ==
    IF m = "pdf" THEN "error_generic_pdf" ELSE "error_generic_ocr"

ErrorMessage(m, e) ==
    CASE e = "TesseractNotFoundError" -> "error_tesseract_not_found"
      [] e = "TesseractError" ->
            IF m = "pdf" THEN "error_tesseract_pdf" ELSE "error_tesseract_ocr"
      [] OTHER ->
            IF m = "pdf" THEN "error_generic_pdf" ELSE "error_generic_ocr"

ErrorTags ==
    {"error_tesseract_not_found", "error_tesseract_pdf", "error_tesseract_ocr",
     "error_generic_pdf", "error_generic_ocr"}

\* lines 200-242: no page selected, the run stops with a warning
MainNoSelection ==
    /\ pc = "start" /\ entry = "main"
    /\ SelectionEmpty(pages)
    /\ tesseract_cmd' = ConfiguredCmd(tesseract_cmd, cmd_path)
    /\ ui' = ui \cup ConfigureWarning(cmd_path) \cup {"warn_select_page"}
    /\ pc' = "done"
    /\ UNCHANGED <<inputs, selected_pages_sorted, mode, arg_pages, displayed,
                   pending_download, download_offered, gen, loopv, histv>>

\* lines 200-256, then 258-267 or 283-291: a button starts an OCR function
MainDispatch ==
    /\ pc = "start" /\ entry = "main"
    /\ ~SelectionEmpty(pages)
    /\ button # "none"
    /\ tesseract_cmd' = ConfiguredCmd(tesseract_cmd, cmd_path)
    /\ selected_pages_sorted' = selected_pages_sorted_of(pages)
    /\ ui' = ui \cup ConfigureWarning(cmd_path)
                \cup ReorderInfo(pages, selected_pages_sorted')
    /\ mode' = IF button = "download_ocr_pdf" THEN "pdf" ELSE "text"
    /\ arg_pages' = selected_pages_sorted'
    /\ pc' = "next"
    /\ UNCHANGED <<inputs, displayed, pending_download, download_offered,
                   gen, loopv, histv>>

\* lines 200-256 with neither button pressed: falls through to line 307
MainIdle ==
    /\ pc = "start" /\ entry = "main"
    /\ ~SelectionEmpty(pages)
    /\ button = "none"
    /\ tesseract_cmd' = ConfiguredCmd(tesseract_cmd, cmd_path)
    /\ selected_pages_sorted' = selected_pages_sorted_of(pages)
    /\ ui' = ui \cup ConfigureWarning(cmd_path)
                \cup ReorderInfo(pages, selected_pages_sorted')
    /\ pc' = "main_tail"
    /\ UNCHANGED <<inputs, mode, arg_pages, displayed, pending_download,
                   download_offered, gen, loopv, histv>>

\* a direct call ocr_pdf_pages(.., pages, ..) / build_searchable_pdf(.., pages, ..)
DirectCall ==
    /\ pc = "start" /\ entry # "main"
    /\ mode' = IF entry = "build_searchable_pdf" THEN "pdf" ELSE "text"
    /\ arg_pages' = pages
    /\ pc' = "next"
    /\ UNCHANGED <<inputs, tesseract_cmd, ui, selected_pages_sorted, displayed,
                   pending_download, download_offered, gen, loopv, histv>>

(***************************************************************************)
(* iter_pdf_images (lines 83-123), resumed by the for loop of the caller   *)
(***************************************************************************)
\* lines 84-85 (and 94-95): nothing to yield
IterReturnEmpty ==
    /\ pc = "next" /\ gen.st = "unstarted"
    /\ (arg_pages = <<>> \/ unique_pages(arg_pages) = <<>>)
    /\ gen' = [gen EXCEPT !.st = "finished"]
    /\ pc' = "loop_end"
    /\ UNCHANGED <<inputs, mainv, loopv, histv>>

\* the generator as it is resumed to fetch a chunk: lines 87-107 on the
\* first resumption, line 123 (chunk_images.clear()) on a later one
AtChunkBoundary ==
    \/ /\ gen.st = "unstarted"
       /\ arg_pages # <<>> /\ unique_pages(arg_pages) # <<>>
    \/ /\ gen.st = "suspended"
       /\ gen.offset = Len(gen.chunk)

NumbersToScan == IF gen.st = "unstarted" THEN ordered_of(arg_pages) ELSE gen.ordered

\* lines 109-122: the next chunk is rasterized and its first page yielded
IterNextChunk ==
    /\ pc = "next" /\ AtChunkBoundary
    /\ LET r == ResumeCC(NumbersToScan, gen.cc) IN
       /\ r.yielded
       /\ LET imgs == ConvertRange(r.value) IN
          /\ gen' = [st |-> "suspended", ordered |-> NumbersToScan, cc |-> r.cc,
                     chunk |-> r.value, offset |-> 1, chunk_images |-> imgs]
          /\ created' = created \cup Range(imgs)
          /\ convert_calls' = Append(convert_calls, <<r.value[1], Last(r.value)>>)
          /\ emitted' = Append(emitted, r.value)
          /\ page_number' = r.value[1]
          /\ image' = imgs[1]
    /\ pc' = "ocr"
    /\ UNCHANGED <<inputs, mainv, ocr_outcome, exc, results, fragments, returned,
                   released, close_failed, failed, ocr_started>>

\* lines 113-120 raise (Poppler missing, unreadable PDF): the exception
\* leaves the generator and the OCR function
IterConvertFails ==
    /\ pc = "next" /\ AtChunkBoundary
    /\ LET r == ResumeCC(NumbersToScan, gen.cc) IN
       /\ r.yielded
       /\ gen' = [st |-> "failed", ordered |-> NumbersToScan, cc |-> r.cc,
                  chunk |-> r.value, offset |-> 0, chunk_images |-> <<>>]
       /\ convert_calls' = Append(convert_calls, <<r.value[1], Last(r.value)>>)
       /\ emitted' = Append(emitted, r.value)
    /\ failed' = TRUE
    /\ exc' = "Exception"
    /\ pc' = "raised"
    /\ UNCHANGED <<inputs, mainv, page_number, image, ocr_outcome, results,
                   fragments, returned, created, released, close_failed,
                   ocr_started>>

\* lines 121-122: the next page of the chunk held
IterYieldNext ==
    /\ pc = "next" /\ gen.st = "suspended"
    /\ gen.offset < Len(gen.chunk)
    /\ gen' = [gen EXCEPT !.offset = gen.offset + 1]
    /\ page_number' = gen.chunk[gen.offset + 1]
    /\ image' = gen.chunk_images[gen.offset + 1]
    /\ pc' = "ocr"
    /\ UNCHANGED <<inputs, mainv, ocr_outcome, exc, results, fragments, returned,
                   histv>>

\* line 123 after the last chunk, then contiguous_chunks is exhausted
IterExhausted ==
    /\ pc = "next" /\ gen.st = "suspended"
    /\ gen.offset = Len(gen.chunk)
    /\ ~ResumeCC(gen.ordered, gen.cc).yielded
    /\ gen' = [gen EXCEPT !.st = "finished", !.chunk_images = <<>>,
                          !.cc = ResumeCC(gen.ordered, gen.cc).cc]
    /\ pc' = "loop_end"
    /\ UNCHANGED <<inputs, mainv, loopv, histv>>

(***************************************************************************)
(* The loop body of ocr_pdf_pages (129-137) and build_searchable_pdf       *)
(* (144-152)                                                               *)
(***************************************************************************)
\* lines 131 / 145: the OCR call returns
OcrReturns ==
    /\ pc = "ocr"
    /\ EngineResolvable
    /\ ocr_started' = Append(ocr_started, image)
    /\ ocr_outcome' = "ok"
    /\ pc' = "finally"
    /\ UNCHANGED <<inputs, mainv, gen, page_number, image, exc, results,
                   fragments, returned, created, released, close_failed,
                   failed, convert_calls, emitted>>

\* lines 131 / 145: the OCR call raises
OcrRaises ==
    /\ pc = "ocr"
    /\ ocr_started' = Append(ocr_started, image)
    /\ \E e \in {"TesseractNotFoundError", "TesseractError", "Exception"} :
          /\ (e = "TesseractNotFoundError") <=> ~EngineResolvable
          /\ ocr_outcome' = e
    /\ failed' = TRUE
    /\ pc' = "finally"
    /\ UNCHANGED <<inputs, mainv, gen, page_number, image, exc, results,
                   fragments, returned, created, released, close_failed,
                   convert_calls, emitted>>

\* lines 132-134 / 146-148: the finally clause calls image.close() however
\* the OCR call ended
\* variant: close() only after a successful OCR call
ReleasedAfterOcr_mut(rel, img, outcome) ==
    IF outcome = "ok" THEN rel \cup {img} ELSE rel

ReleasedAfterOcr(rel, img, outcome) == rel \cup {img}

\* lines 135-136 / 149-150: an exception of image.close() is dropped; what
\* leaves the finally clause is what the OCR call left
\* variant: an exception of close() propagates
AfterFinally_mut(outcome, close_raised) ==
    IF close_raised THEN "Exception" ELSE outcome

AfterFinally(outcome, close_raised) == outcome

\* lines 137 / 151-152 are reached only if nothing propagates
\* variant: an OCR failure is swallowed and the loop goes on
ContinuesLoop_mut(outcome) == TRUE

ContinuesLoop(outcome) == outcome = "ok"

\* the finally clause; an exception leaves the loop and the function, and
\* the suspended generator is dropped with the images it still holds
ImageClose ==
    /\ pc = "finally"
    /\ \E close_raised \in BOOLEAN :
          /\ released' = ReleasedAfterOcr(released, image, ocr_outcome)
          /\ close_failed' = (close_failed \/ close_raised)
          /\ LET out == AfterFinally(ocr_outcome, close_raised) IN
             IF ContinuesLoop(out)
             THEN /\ pc' = "append"
                  /\ UNCHANGED <<gen, exc>>
             ELSE /\ pc' = "raised"
                  /\ exc' = out
                  /\ gen' = [gen EXCEPT !.st = "abandoned", !.chunk_images = <<>>]
    /\ UNCHANGED <<inputs, mainv, page_number, image, ocr_outcome, results,
                   fragments, returned, created, failed, ocr_started,
                   convert_calls, emitted>>

\* line 137 (results.append) / lines 151-152 (writer.add_page)
AppendResult ==
    /\ pc = "append"
    /\ IF mode = "text"
       THEN /\ results' = Append(results, <<page_number, image>>)
            /\ UNCHANGED fragments
       ELSE /\ fragments' = Append(fragments, image)
            /\ UNCHANGED results
    /\ pc' = "next"
    /\ UNCHANGED <<inputs, mainv, gen, page_number, image, ocr_outcome, exc,
                   returned, histv>>

\* line 138 (return results) / lines 153-156 (the written buffer)
FunctionReturns ==
    /\ pc = "loop_end"
    /\ returned' = <<IF mode = "text" THEN results ELSE fragments>>
    /\ pc' = "returned"
    /\ UNCHANGED <<inputs, mainv, gen, page_number, image, ocr_outcome, exc,
                   results, fragments, histv>>

(***************************************************************************)
(* main(): what follows the OCR function                                   *)
(***************************************************************************)
\* lines 268-276 / 292-300: an except clause reports and returns
MainExcept ==
    /\ pc = "raised" /\ entry = "main"
    /\ ui' = ui \cup {ErrorMessage(mode, exc)}
    /\ pc' = "done"
    /\ UNCHANGED <<inputs, tesseract_cmd, selected_pages_sorted, mode, arg_pages,
                   displayed, pending_download, download_offered, gen, loopv,
                   histv>>

\* lines 278-281: the searchable PDF is stored for download
MainStoreDownload ==
    /\ pc = "returned" /\ entry = "main" /\ mode = "pdf"
    /\ pending_download' = <<returned[1]>>
    /\ pc' = "main_tail"
    /\ UNCHANGED <<inputs, tesseract_cmd, ui, selected_pages_sorted, mode,
                   arg_pages, displayed, download_offered, gen, loopv, histv>>

\* lines 302-305: the OCR text is displayed
MainDisplay ==
    /\ pc = "returned" /\ entry = "main" /\ mode = "text"
    /\ IF returned[1] # <<>>
       THEN /\ displayed' = returned[1]
            /\ UNCHANGED ui
       ELSE /\ ui' = ui \cup {"warn_no_page_processed"}
            /\ UNCHANGED displayed
    /\ pc' = "main_tail"
    /\ UNCHANGED <<inputs, tesseract_cmd, selected_pages_sorted, mode, arg_pages,
                   pending_download, download_offered, gen, loopv, histv>>

\* lines 307-320: the pending download is popped and offered
MainTail ==
    /\ pc = "main_tail"
    /\ pending_download' = <<>>
    /\ IF pending_download # <<>>
       THEN /\ download_offered' = pending_download
            /\ ui' = ui \cup {"success_download"}
       ELSE UNCHANGED <<download_offered, ui>>
    /\ pc' = "done"
    /\ UNCHANGED <<inputs, tesseract_cmd, selected_pages_sorted, mode, arg_pages,
                   displayed, gen, loopv, histv>>

Next ==
    \/ MainNoSelection
    \/ MainDispatch
    \/ MainIdle
    \/ DirectCall
    \/ IterReturnEmpty
    \/ IterNextChunk
    \/ IterConvertFails
    \/ IterYieldNext
    \/ IterExhausted
    \/ OcrReturns
    \/ OcrRaises
    \/ ImageClose
    \/ AppendResult
    \/ FunctionReturns
    \/ MainExcept
    \/ MainStoreDownload
    \/ MainDisplay
    \/ MainTail

Spec == Init /\ [][Next]_vars

\* the invocation has ended: main() has returned, or the directly called
\* function has returned or raised
Ended ==
    \/ pc = "done"
    \/ entry # "main" /\ pc \in {"returned", "raised"}

TypeOK ==
    /\ pc \in {"start", "next", "ocr", "finally", "append", "loop_end",
               "returned", "raised", "main_tail", "done"}
    /\ mode \in {"none", "text", "pdf"}
    /\ released \subseteq created
    /\ Len(pending_download) <= 1

(***************************************************************************)
(* Properties                                                              *)
(***************************************************************************)
LiveImages == created \ released

Seq1To(n) == [i \in 1..n |-> i]

\* number of pages in the first m chunks
RECURSIVE LenBefore(_, _)
LenBefore(chs, m) == IF m = 0 THEN 0 ELSE Len(chs[m]) + LenBefore(chs, m - 1)

\* the chunk holding the i-th page of the concatenation, and the position
\* of that page inside its chunk
ChunkOf(chs, i) ==
    CHOOSE m \in 1..Len(chs) : LenBefore(chs, m - 1) < i /\ i <= LenBefore(chs, m)

OffsetIn(chs, i) == i - LenBefore(chs, ChunkOf(chs, i) - 1)

\* C1: page normalisation (dedupe then sorted() in iter_pdf_images,
\* sorted(set()) in main) of any page list is strictly increasing and has
\* exactly the values of the list; the empty list gives the empty list.
C1_Normalisation ==
    /\ StrictlyIncreasing(ordered_of(pages))
    /\ Range(ordered_of(pages)) = Range(pages)
    /\ StrictlyIncreasing(selected_pages_sorted_of(pages))
    /\ Range(selected_pages_sorted_of(pages)) = Range(pages)
    /\ pages = <<>> => ordered_of(pages) = <<>> /\ selected_pages_sorted_of(pages) = <<>>
    /\ gen.st \in {"suspended", "finished", "abandoned", "failed"} /\ arg_pages # <<>>
          => /\ StrictlyIncreasing(gen.ordered)
             /\ Range(gen.ordered) = Range(arg_pages)
    /\ entry = "main" /\ pc \notin {"start", "done"}
          => /\ StrictlyIncreasing(selected_pages_sorted)
             /\ Range(selected_pages_sorted) = Range(pages)

C1_Witness ==
    /\ arg_pages = <<3, 1, 2, 2>>
    /\ gen.st = "suspended"
    /\ gen.ordered = <<1, 2, 3>>

\* C2: the chunks contiguous_chunks emits are non-empty, at most
\* MAX_PAGES_PER_CHUNK long, made of consecutive integers, and their
\* concatenation in emission order is the input (a prefix of it while the
\* generator is still running).
C2_Chunks ==
    /\ \A m \in 1..Len(emitted) :
          /\ emitted[m] # <<>>
          /\ Len(emitted[m]) <= MAX_PAGES_PER_CHUNK
          /\ \A i \in 1..(Len(emitted[m]) - 1) : emitted[m][i + 1] = emitted[m][i] + 1
    /\ gen.st # "unstarted" => IsPrefix(Concat(emitted), gen.ordered)
    /\ gen.st = "finished" /\ arg_pages # <<>> => Concat(emitted) = gen.ordered

C2_Witness ==
    /\ gen.st = "finished"
    /\ Len(emitted) >= 2
    /\ \E m \in 1..Len(emitted) : Len(emitted[m]) = MAX_PAGES_PER_CHUNK
    /\ \E m \in 1..(Len(emitted) - 1) : emitted[m + 1][1] > Last(emitted[m]) + 1

\* C3: successive pages p, q share a chunk iff q = p + 1 and the open chunk
\* holds fewer than MAX_PAGES_PER_CHUNK pages when q is scanned; every
\* boundary between chunks is a numeric gap or follows a full chunk; pages
\* 1..20 give [1..8], [9..16], [17..20] and [1,2,5,6,7] gives [1,2], [5,6,7].
C3_SameChunkIff ==
    /\ gen.st = "finished" /\ arg_pages # <<>> =>
          /\ Concat(emitted) = gen.ordered
          /\ \A i \in 1..(Len(gen.ordered) - 1) :
                (ChunkOf(emitted, i) = ChunkOf(emitted, i + 1))
                    <=> /\ gen.ordered[i + 1] = gen.ordered[i] + 1
                        /\ OffsetIn(emitted, i) < MAX_PAGES_PER_CHUNK
          /\ \A m \in 1..(Len(emitted) - 1) :
                \/ emitted[m + 1][1] # Last(emitted[m]) + 1
                \/ Len(emitted[m]) = MAX_PAGES_PER_CHUNK
    /\ gen.st = "finished" /\ arg_pages = Seq1To(20) =>
          emitted = <<Seq1To(8), [i \in 1..8 |-> 8 + i], [i \in 1..4 |-> 16 + i]>>
    /\ gen.st = "finished" /\ arg_pages = <<1, 2, 5, 6, 7>> =>
          emitted = <<<<1, 2>>, <<5, 6, 7>>>>

C3_Witness ==
    /\ gen.st = "finished"
    /\ arg_pages = Seq1To(20)
    /\ Len(emitted) = 3
    /\ Len(emitted[1]) = MAX_PAGES_PER_CHUNK
    /\ emitted[2][1] = Last(emitted[1]) + 1

\* C4: build_searchable_pdf adds one fragment per distinct requested page,
\* in strictly ascending page order whatever the order of the page list;
\* pages [2,1] give the output page order [1,2].
C4_AscendingFragments ==
    /\ mode = "pdf" =>
          /\ StrictlyIncreasing(fragments)
          /\ Range(fragments) \subseteq Range(pages)
    /\ mode = "pdf" /\ returned # <<>> =>
          /\ returned[1] = fragments
          /\ Range(fragments) = Range(pages)
          /\ Len(fragments) = Cardinality(Range(pages))
    /\ mode = "pdf" /\ returned # <<>> /\ pages = <<2, 1>> => returned[1] = <<1, 2>>

C4_Witness ==
    /\ entry = "build_searchable_pdf"
    /\ pages = <<2, 1>>
    /\ returned = <<<<1, 2>>>>

\* C5: once a rasterization or an OCR call has failed, nothing more is
\* rasterized or OCR'd, the function returns nothing, nothing is displayed
\* and no download is stored or offered; when the invocation ends the error
\* has been surfaced (an st.error in main, the exception for a direct call);
\* what is displayed or stored covers every selected page.
C5_AllOrNothing ==
    /\ [](failed =>
            /\ returned = <<>>
            /\ displayed = <<>>
            /\ pending_download = <<>>
            /\ download_offered = <<>>)
    /\ [](failed /\ Ended =>
            IF entry = "main" THEN ui \cap ErrorTags # {} ELSE exc # "none")
    /\ [](displayed # <<>> =>
            [i \in 1..Len(displayed) |-> displayed[i][1]] = selected_pages_sorted)
    /\ [](pending_download # <<>> => pending_download[1] = selected_pages_sorted)
    /\ [][failed => UNCHANGED <<ocr_started, convert_calls, created, results,
                                fragments>>]_vars

C5_Witness ==
    /\ pc = "done"
    /\ mode = "text"
    /\ failed
    /\ Len(results) >= 2
    /\ displayed = <<>>
    /\ "error_tesseract_ocr" \in ui

\* C6 as stated: with the engine unresolvable, an OCR operation of main ends
\* with the Tesseract-not-found error and no other error, no page processed
\* and nothing shown.
C6_Original ==
    entry = "main" /\ mode # "none" /\ pc = "done" /\ ~EngineResolvable =>
        /\ ui \cap ErrorTags = {"error_tesseract_not_found"}
        /\ results = <<>> /\ fragments = <<>>
        /\ displayed = <<>> /\ download_offered = <<>>

\* C6 as amended: with the engine unresolvable, an OCR operation of main ends
\* with exactly one error, no page processed and nothing shown; the error is
\* the Tesseract-not-found one if the first chunk was rasterized, and the
\* generic one if that rasterization failed.
C6_EngineUnresolvable ==
    entry = "main" /\ mode # "none" /\ pc = "done" /\ ~EngineResolvable =>
        /\ ui \cap ErrorTags =
              IF created # {} THEN {"error_tesseract_not_found"}
              ELSE {ErrorMessage(mode, "Exception")}
        /\ ErrorMessage(mode, "Exception") # "error_tesseract_not_found"
        /\ ErrorMessage(mode, "TesseractError") # "error_tesseract_not_found"
        /\ Len(ocr_started) <= 1 /\ Len(convert_calls) = 1
        /\ results = <<>> /\ fragments = <<>>
        /\ displayed = <<>> /\ download_offered = <<>>

C6_Witness ==
    /\ entry = "main" /\ pc = "done"
    /\ cmd_path = "missing" /\ ~on_path
    /\ Len(pages) >= 2
    /\ Len(ocr_started) = 1
    /\ ui \cap ErrorTags = {"error_tesseract_not_found"}

\* C7: image.close() is called on every image handed to the OCR engine,
\* after that OCR call has ended (returned or raised) and before the next
\* OCR call starts, and on no image before its OCR call; an exception of
\* close() changes neither what propagates nor what is returned.
C7_ReleaseAfterOcr ==
    /\ \A i \in 1..Len(ocr_started) :
          (i < Len(ocr_started) \/ pc # "finally") => ocr_started[i] \in released
    /\ released \subseteq Range(ocr_started)
    /\ pc = "ocr" => image \notin released
    /\ pc = "append" => ocr_outcome = "ok" /\ exc = "none"
    /\ pc = "raised" /\ gen.st = "abandoned" =>
          ocr_outcome \notin {"ok", "none"} /\ exc = ocr_outcome
    /\ Ended /\ mode # "none" /\ ~failed =>
          /\ returned # <<>>
          /\ Len(returned[1]) = Cardinality(Range(arg_pages))

C7_Witness ==
    /\ Ended
    /\ close_failed /\ ~failed
    /\ returned # <<>>
    /\ Len(returned[1]) >= 2

\* C8: an empty page list causes no chunk, no rasterization and no OCR call;
\* called with it, the OCR function returns an empty result; main stops
\* with the select-a-page warning and starts neither OCR function.
C8_EmptySelection ==
    pages = <<>> =>
        /\ emitted = <<>> /\ convert_calls = <<>> /\ created = {}
        /\ ocr_started = <<>>
        /\ exc = "none"
        /\ entry # "main" /\ Ended => returned = <<<<>>>>
        /\ entry = "main" => mode = "none" /\ pc \in {"start", "done"}
        /\ entry = "main" /\ pc = "done" => "warn_select_page" \in ui

C8_Witness ==
    /\ entry = "ocr_pdf_pages"
    /\ pages = <<>>
    /\ gen.st = "finished"
    /\ returned = <<<<>>>>

\* C9 as stated: when an OCR invocation has ended, every image the
\* rasterizer created during it has been released.
C9_AllReleasedAtEnd ==
    Ended /\ mode # "none" => created \subseteq released

\* C10: at most MAX_PAGES_PER_CHUNK images are created and not yet
\* released; the unreleased images all belong to the chunk rasterized last,
\* so every image of a chunk is released before the next chunk is
\* rasterized.
C10_BoundedLiveImages ==
    /\ Cardinality(LiveImages) <= MAX_PAGES_PER_CHUNK
    /\ convert_calls # <<>> =>
          LiveImages \subseteq Last(convert_calls)[1]..Last(convert_calls)[2]
    /\ pc = "ocr" /\ gen.offset = 1 => LiveImages = Range(gen.chunk_images)

C10_Witness ==
    /\ Cardinality(LiveImages) = MAX_PAGES_PER_CHUNK
    /\ Len(convert_calls) >= 2
    /\ released # {}

====
